---------------------------- MODULE Spec2Model ----------------------------
(***************************************************************************)
(* The authentication gate of the sticho service: the Stytch auth          *)
(* middleware (service/middleware/auth.py), the require_auth dependency of *)
(* the /gql mount and the application assembly (service/run.py).           *)
(*                                                                         *)
(* Python strings are sequences of one-character strings, so that          *)
(* startswith, slicing and strip are computed as the code computes them.   *)
(* An Optional[str] is a record [some, val]; None is [some |-> FALSE].     *)
(*                                                                         *)
(* The coroutines are scheduled on one event loop.  validate_session and   *)
(* the two SDK calls in it never suspend, so a request advances in three   *)
(* steps: the middleware dispatch up to call_next, the routed application  *)
(* (dependency + handler) up to the resolver's sleep, and the resolver's   *)
(* completion.  Steps of different requests interleave freely.             *)
(***************************************************************************)
EXTENDS Naturals, Sequences, FiniteSets

VARIABLES
    enforce_iam,   \* cfg.enforce_iam, fixed at start-up
    idp,           \* how the identity provider answers for each issued token
    req            \* the requests being handled: id -> request record

vars == <<enforce_iam, idp, req>>

---------------------------------------------------------------------------
(* Strings *)

None == [some |-> FALSE, val |-> << >>]
Some(s) == [some |-> TRUE, val |-> s]

\* Python truthiness of an Optional[str]: None and "" are falsy.
Truthy(o) == o.some /\ o.val # << >>

\* str.startswith
StartsWith(s, p) == Len(p) <= Len(s) /\ SubSeq(s, 1, Len(p)) = p

\* str.isspace of one character: tab, line feed, vertical tab, form feed,
\* carriage return, the separators U+001C to U+001F, space, U+0085 and U+00A0.
\* (The Unicode spaces above U+00FF are whitespace for Python too; a string of
\* this module cannot hold them.)
IsSpace(c) ==
    c \in {"\t", "\n", "", "\f", "\r", "", "", "", "", " ", "", " "}

RECURSIVE LStrip(_)
LStrip(s) == IF s # << >> /\ IsSpace(Head(s)) THEN LStrip(Tail(s)) ELSE s

RECURSIVE RStrip(_)
RStrip(s) ==
    IF s # << >> /\ IsSpace(s[Len(s)]) THEN RStrip(SubSeq(s, 1, Len(s) - 1)) ELSE s

\* str.strip
Strip(s) == RStrip(LStrip(s))

\* the literal "Bearer " and the slice [7:] that removes it
Bearer == <<"B", "e", "a", "r", "e", "r", " ">>
BearerLen == 7
DropBearer(s) == SubSeq(s, BearerLen + 1, Len(s))

---------------------------------------------------------------------------
(* Paths and routes *)

PathRoot     == <<"/">>
PathAuth     == <<"/", "a", "u", "t", "h", "/">>
PathGoogle   == <<"/", "a", "u", "t", "h", "/", "s", "s", "o", "/",
                  "g", "o", "o", "g", "l", "e">>
PathCallback == <<"/", "a", "u", "t", "h", "/", "c", "a", "l", "l", "b", "a", "c", "k">>
PathDocs     == <<"/", "d", "o", "c", "s">>
PathRedoc    == <<"/", "r", "e", "d", "o", "c">>
PathOpenapi  == <<"/", "o", "p", "e", "n", "a", "p", "i", ".", "j", "s", "o", "n">>
PathGql      == <<"/", "g", "q", "l">>
PathDocsOauth == <<"/", "d", "o", "c", "s", "/", "o", "a", "u", "t", "h", "2", "-",
                   "r", "e", "d", "i", "r", "e", "c", "t">>
PathGqlSub   == <<"/", "g", "q", "l", "/", "x">>
PathGqlSlash == <<"/", "g", "q", "l", "/">>
PathAdmin    == <<"/", "a", "d", "m", "i", "n">>
\* path strings that do not begin with "/": the empty URL path of an
\* asterisk-form request target (OPTIONS *), and a relative path
PathEmpty    == << >>
PathRelative == <<"g", "q", "l">>

\* the public paths without the entry "/" that every path begins with
PUBLIC_PATHS_NoRoot == <<PathAuth, PathGoogle, PathCallback, PathDocs, PathRedoc>>

PUBLIC_PATHS == <<PathRoot, PathAuth, PathGoogle, PathCallback, PathDocs, PathRedoc>>

\* any(request.url.path.startswith(path) for path in self.public_paths)
IsPublic(path) == \E i \in 1..Len(PUBLIC_PATHS) : StartsWith(path, PUBLIC_PATHS[i])

\* The route whose path is the given path: the two auth routes, the GraphQL
\* mount, and the documentation routes every FastAPI application has.
RouteMatch(path) ==
    IF path = PathGql THEN "graphql"
    ELSE IF path = PathGoogle THEN "google_sso_route"
    ELSE IF path = PathCallback THEN "callback_route"
    ELSE IF path \in {PathDocs, PathRedoc, PathOpenapi, PathDocsOauth} THEN "docs"
    ELSE "not_found"

\* str.rstrip("/")
RECURSIVE RStripSlash(_)
RStripSlash(s) ==
    IF s # << >> /\ s[Len(s)] = "/" THEN RStripSlash(SubSeq(s, 1, Len(s) - 1)) ELSE s

\* the path the router tries when no route matches (redirect_slashes): without
\* its trailing slashes, or with one added
SlashVariant(path) ==
    IF path # << >> /\ path[Len(path)] = "/" THEN RStripSlash(path) ELSE path \o <<"/">>

\* What the application's router selects for a path: a route's handler, the
\* redirect to the path's slash variant when only that has a route, or 404.
Route(path) ==
    IF RouteMatch(path) # "not_found" THEN RouteMatch(path)
    ELSE IF path # PathRoot /\ RouteMatch(SlashVariant(path)) # "not_found"
    THEN "redirect_slashes"
    ELSE "not_found"

---------------------------------------------------------------------------
(* The identity provider (Stytch SDK), as the gate sees it *)

\* Session tokens the provider has issued.  Any other string is not a token
\* of the provider: local verification yields no result and the remote call
\* raises.
TokenC == <<"c">>
TokenH == <<"h">>
KnownTokens == {TokenC, TokenH}

LocalOutcomes == {"ok", "none", "raise"}
RemoteOutcomes == {"ok", "raise"}
Providers == [KnownTokens -> [local : LocalOutcomes, remote : RemoteOutcomes]]

\* the session record the provider resolves for a token
UserOf(tok) == <<"u", "-">> \o tok
SessionOf(tok) == <<"s", "-">> \o tok

\* stytch_client.sessions.authenticate_jwt_local(session_jwt = tok)
authenticate_jwt_local(tok) ==
    IF tok \in KnownTokens THEN idp[tok].local ELSE "none"

\* stytch_client.sessions.authenticate(session_jwt = tok)
authenticate(tok) ==
    IF tok \in KnownTokens THEN idp[tok].remote ELSE "raise"

Call(fn, tok, res) == [fn |-> fn, tok |-> tok, res |-> res]

---------------------------------------------------------------------------
(* Identity context and responses *)

NoSession == [set |-> FALSE, user_id |-> << >>, session_id |-> << >>,
              authenticated |-> FALSE]
Session(uid, sid) == [set |-> TRUE, user_id |-> uid, session_id |-> sid,
                      authenticated |-> TRUE]

\* request.state: the attributes the gate sets (an unset attribute is absent)
EmptyState == [session |-> NoSession, authenticated |-> FALSE, user_id |-> None]

\* request.state.session = s; .authenticated = True; .user_id = s.get("user_id")
StoreSession(s) == [session |-> s, authenticated |-> TRUE, user_id |-> Some(s.user_id)]

\* A response: status, the key of its JSON body ("error", "detail", "data"),
\* the body's text in fragments, and the session cookie it sets.
NoResp == [status |-> 0, key |-> "none", msg |-> << >>, cookie |-> None]
Resp(status, key, msg) == [status |-> status, key |-> key, msg |-> msg, cookie |-> None]

MsgAuthRequired == <<"Authentication required">>
MsgAuthRequiredGql == <<"Authentication required", " for GraphQL endpoint">>
MsgInvalid == <<"Invalid session: ">>
MsgNoToken == <<"No session token provided">>
MsgLocalError == <<"local verification error">>
MsgRemoteError == <<"remote verification error">>

---------------------------------------------------------------------------
(* validate_session *)

\* the fallback taken for any local failure, an exception included
RemoteFallback_OnRaise(local) == local \in {"none", "raise"}

\* The fallback of validate_session: taken when local verification returned
\* a falsy result ("if not session").
RemoteFallback(local) == local = "none"

\* Result: ok, the session dict, the exception text, and the SDK calls made.
validate_session(tok) ==
    IF tok = << >>
    THEN [ok |-> FALSE, session |-> NoSession, err |-> MsgNoToken, calls |-> << >>]
    ELSE LET local == authenticate_jwt_local(tok)
             c1 == <<Call("local", tok, local)>>
         IN  IF RemoteFallback(local)
             THEN LET remote == authenticate(tok)
                      c2 == c1 \o <<Call("remote", tok, remote)>>
                  IN  IF remote = "ok"
                      THEN [ok |-> TRUE, session |-> Session(UserOf(tok), SessionOf(tok)),
                            err |-> << >>, calls |-> c2]
                      ELSE [ok |-> FALSE, session |-> NoSession,
                            err |-> MsgInvalid \o MsgRemoteError, calls |-> c2]
             ELSE IF local = "ok"
             THEN [ok |-> TRUE, session |-> Session(UserOf(tok), SessionOf(tok)),
                   err |-> << >>, calls |-> c1]
             ELSE [ok |-> FALSE, session |-> NoSession,
                   err |-> MsgInvalid \o MsgLocalError, calls |-> c1]

---------------------------------------------------------------------------
(* Credential extraction *)

\* dispatch, both branches: the cookie, else a "Bearer " header's remainder
MwHeaderToken(cookie, auth) ==
    IF ~Truthy(cookie) /\ auth.some
    THEN IF StartsWith(auth.val, Bearer) THEN Some(DropBearer(auth.val)) ELSE cookie
    ELSE cookie

\* the header preferred to the cookie
RaToken_HeaderFirst(cookie, auth) ==
    IF Truthy(auth)
    THEN IF StartsWith(auth.val, Bearer)
         THEN Some(Strip(DropBearer(auth.val)))
         ELSE Some(Strip(auth.val))
    ELSE cookie

\* require_auth: the cookie, else the header without "Bearer ", else the raw
\* header, stripped
RaToken(cookie, auth) ==
    IF ~Truthy(cookie) /\ Truthy(auth)
    THEN IF StartsWith(auth.val, Bearer)
         THEN Some(Strip(DropBearer(auth.val)))
         ELSE Some(Strip(auth.val))
    ELSE cookie

---------------------------------------------------------------------------
(* StytchAuthMiddleware.dispatch *)

Ok == 200
Redirect == 307
BadRequest == 400
Unauthorized == 401
NotFound == 404
ServerError == 500

\* The outcome of dispatch up to its return: whether call_next was called,
\* request.state, the SDK calls made, the response it returned itself, and
\* whether an exception left it uncaught.
MwPass(state, calls) ==
    [next |-> TRUE, state |-> state, calls |-> calls, resp |-> NoResp, uncaught |-> FALSE]
MwReject(msg, calls) ==
    [next |-> FALSE, state |-> EmptyState, calls |-> calls,
     resp |-> Resp(Unauthorized, "error", msg), uncaught |-> FALSE]
MwRaise ==
    [next |-> FALSE, state |-> EmptyState, calls |-> << >>, resp |-> NoResp, uncaught |-> TRUE]

\* try: session = await validate_session(tok) ... except Exception as e: 401
MwValidate(tok) ==
    LET v == validate_session(tok)
    IN  IF v.ok THEN MwPass(StoreSession(v.session), v.calls)
        ELSE MwReject(MsgInvalid \o v.err, v.calls)

dispatch(rq) ==
    IF ~enforce_iam
    THEN MwPass([EmptyState EXCEPT !.authenticated = TRUE], << >>)
    ELSE IF IsPublic(rq.path)
    THEN MwPass(EmptyState, << >>)
    ELSE IF StartsWith(rq.path, PathGql)
    THEN LET t == MwHeaderToken(rq.cookie, rq.auth)
         IN  IF ~t.some
             THEN MwRaise   \* None.strip(): AttributeError, outside the try
             ELSE IF Strip(t.val) = << >>
             THEN MwReject(MsgAuthRequiredGql, << >>)
             ELSE MwValidate(Strip(t.val))
    ELSE LET t == MwHeaderToken(rq.cookie, rq.auth)
         IN  IF ~Truthy(t)
             THEN MwReject(MsgAuthRequired, << >>)
             ELSE MwValidate(t.val)

---------------------------------------------------------------------------
(* require_auth *)

\* raise HTTPException(status_code = 401, detail = msg): FastAPI answers with
\* status 401 and the body {"detail": msg}; the handler is not called.
\* the failure not converted: the exception leaves the dependency as it is
\* and the server answers 500
RaReject_Uncaught(msg, calls) ==
    [ok |-> FALSE, state |-> EmptyState, calls |-> calls,
     resp |-> Resp(ServerError, "text", <<"Internal Server Error">>)]

\* the failure swallowed: the dependency returns and the handler is called
RaReject_FallsThrough(msg, calls) ==
    [ok |-> TRUE, state |-> EmptyState, calls |-> calls, resp |-> NoResp]

RaReject(msg, calls) ==
    [ok |-> FALSE, state |-> EmptyState, calls |-> calls,
     resp |-> Resp(Unauthorized, "detail", msg)]
RaAdmit(s, calls) ==
    [ok |-> TRUE, state |-> StoreSession(s), calls |-> calls, resp |-> NoResp]

DummyUser == <<"a", "n", "o", "n", "y", "m", "o", "u", "s">>
DummySessionId == <<"n", "o", "n", "e">>
dummy_session == Session(DummyUser, DummySessionId)

require_auth(rq) ==
    IF ~enforce_iam
    THEN RaAdmit(dummy_session, << >>)
    ELSE LET t == RaToken(rq.cookie, rq.auth)
         IN  IF ~Truthy(t)
             THEN RaReject(MsgAuthRequired, << >>)
             ELSE LET v == validate_session(t.val)
                  IN  IF v.ok THEN RaAdmit(v.session, v.calls)
                      ELSE RaReject(MsgInvalid \o v.err, v.calls)

---------------------------------------------------------------------------
(* Route handlers *)

\* cfg: the settings the OAuth start URL is built from
cfg_env == "test"
cfg_public_token == "public-token-test-da0"
cfg_redirect_url == "http://localhost:36016/auth/callback"

\* start_google_oauth: a redirect to the provider's OAuth start URL with the
\* public token and the login redirect URL as its query
start_google_oauth ==
    Resp(Redirect, "location",
         <<"https://", cfg_env, ".stytch.com/v1/public/oauth/google/start",
           "?public_token=", cfg_public_token,
           "&login_redirect_url=", cfg_redirect_url>>)

\* handle_oauth_callback(token); oauth is the provider's answer to the
\* token exchange: "raise", or the session_jwt it issued
handle_oauth_callback(token, oauth) ==
    IF ~Truthy(token)
    THEN Resp(BadRequest, "error", <<"No authentication token provided">>)
    ELSE IF oauth = None
    THEN Resp(Unauthorized, "error", <<"Authentication failed: ", "oauth error">>)
    ELSE [status |-> Redirect, key |-> "location", msg |-> PathGql, cookie |-> oauth]

\* get_about: the informational record (server_time left out)
get_about == <<"dev", "1.0.1", "localhost", "localhost">>

---------------------------------------------------------------------------
(* Requests *)

Arrival(path, cookie, auth, token) ==
    [path |-> path, cookie |-> cookie, auth |-> auth, token |-> token,
     pc |-> "received", state |-> EmptyState, calls |-> << >>,
     resp |-> NoResp, uncaught |-> FALSE, handler |-> "none", resolved |-> FALSE]

Paths == {PathRoot, PathGql, PathGqlSub, PathGqlSlash, PathAdmin, PathDocs,
          PathDocsOauth, PathGoogle, PathCallback, PathOpenapi}
Cookies == {None, Some(<< >>), Some(TokenC)}
Headers == {None, Some(<< >>), Some(Bearer \o TokenH), Some(TokenH),
            Some(Bearer \o <<" ">> \o TokenH \o <<" ">>),
            Some(Bearer \o <<"\f">> \o TokenH \o <<"\r">>), Some(Bearer)}
OAuthToken == <<"t">>

Arrivals ==
    {Arrival(p, c, a, None) : p \in Paths, c \in Cookies, a \in Headers}
    \cup {Arrival(PathCallback, None, None, Some(OAuthToken))}

\* dispatch applied to any path string, one beginning with "/" or not
DispatchArrivals ==
    {Arrival(p, c, a, None) : p \in {PathEmpty, PathRelative, PathGql, PathAdmin},
                              c \in Cookies, a \in Headers}

ConcArrivals ==
    {Arrival(p, c, a, None) : p \in {PathGql, PathAdmin},
                              c \in {None, Some(TokenC)},
                              a \in {None, Some(Bearer \o TokenH)}}

\* the provider's answers to an OAuth token exchange
OAuthOutcomes == {None} \cup {Some(t) : t \in KnownTokens}

---------------------------------------------------------------------------
(* Actions *)

Finish(rq, resp) == [rq EXCEPT !.pc = "done", !.resp = resp]

\* The middleware handles request r up to call_next or its own response.
Dispatch(r) ==
    /\ req[r].pc = "received"
    /\ LET d == dispatch(req[r])
       IN  req' = [req EXCEPT ![r] =
                IF d.next
                THEN [@ EXCEPT !.pc = "routed", !.state = d.state, !.calls = @ \o d.calls]
                ELSE IF d.uncaught
                THEN [@ EXCEPT !.pc = "done", !.uncaught = TRUE,
                               !.resp = Resp(ServerError, "text", <<"Internal Server Error">>)]
                ELSE [@ EXCEPT !.pc = "done", !.calls = @ \o d.calls, !.resp = d.resp]]
    /\ UNCHANGED <<enforce_iam, idp>>

\* The application behind call_next: the router picks the handler, the /gql
\* mount runs its require_auth dependency, and the handler starts.
endpoint(rq, oauth) ==
    LET h == Route(rq.path)
        ra == require_auth(rq)
    IN  IF h = "graphql"
        THEN IF ra.ok
             THEN [rq EXCEPT !.pc = "resolving", !.handler = h,
                             !.state = ra.state, !.calls = @ \o ra.calls]
             ELSE [rq EXCEPT !.pc = "done", !.calls = @ \o ra.calls, !.resp = ra.resp]
        ELSE IF h = "google_sso_route"
        THEN Finish([rq EXCEPT !.handler = h], start_google_oauth)
        ELSE IF h = "callback_route"
        THEN Finish([rq EXCEPT !.handler = h], handle_oauth_callback(rq.token, oauth))
        ELSE IF h = "docs"
        THEN Finish([rq EXCEPT !.handler = h], Resp(Ok, "html", <<"docs">>))
        ELSE IF h = "redirect_slashes"
        THEN Finish(rq, Resp(Redirect, "location", SlashVariant(rq.path)))
        ELSE Finish(rq, Resp(NotFound, "detail", <<"Not Found">>))

\* Endpoint with the identity context kept on the application object, which
\* every request shares, instead of on the request.
Endpoint_AppState(r) ==
    /\ req[r].pc = "routed"
    /\ \E oauth \in OAuthOutcomes :
         LET e == endpoint(req[r], oauth)
         IN  req' = [q \in DOMAIN req |->
                        IF q = r THEN e ELSE [req[q] EXCEPT !.state = e.state]]
    /\ UNCHANGED <<enforce_iam, idp>>

Endpoint(r) ==
    /\ req[r].pc = "routed"
    /\ \E oauth \in OAuthOutcomes : req' = [req EXCEPT ![r] = endpoint(req[r], oauth)]
    /\ UNCHANGED <<enforce_iam, idp>>

\* The resolver q_about completes and the GraphQL response is returned.
Resolve(r) ==
    /\ req[r].pc = "resolving"
    /\ req' = [req EXCEPT ![r] =
                  Finish([@ EXCEPT !.resolved = TRUE], Resp(Ok, "data", get_about))]
    /\ UNCHANGED <<enforce_iam, idp>>

Next ==
    \/ \E r \in DOMAIN req : Dispatch(r)
    \/ \E r \in DOMAIN req : Endpoint(r)
    \/ \E r \in DOMAIN req : Resolve(r)

\* One request as the HTTP server delivers it (its path begins with "/"), with
\* every combination of cookie and header.  cfg.enforce_iam defaults to True;
\* both settings are covered.
Init ==
    /\ enforce_iam \in BOOLEAN
    /\ idp \in Providers
    /\ req \in [{1} -> Arrivals]

Spec == Init /\ [][Next]_vars

\* concurrently handled requests
NumConc == 2

InitConc ==
    /\ enforce_iam \in BOOLEAN
    /\ idp \in Providers
    /\ req \in [1..NumConc -> ConcArrivals]

SpecConc == InitConc /\ [][Next]_vars

\* the gate as a function of the request, over every path string
InitDispatch ==
    /\ enforce_iam \in BOOLEAN
    /\ idp \in Providers
    /\ req \in [{1} -> DispatchArrivals]

SpecDispatch == InitDispatch /\ [][Next]_vars

---------------------------------------------------------------------------
(* Properties *)

Reqs == DOMAIN req

\* the strings a request carries as its credential: the cookie value, the
\* Authorization header with and without its "Bearer " prefix
Carried(rq) ==
    (IF rq.cookie.some THEN {rq.cookie.val} ELSE {})
    \cup (IF rq.auth.some THEN {Strip(rq.auth.val)} ELSE {})
    \cup (IF rq.auth.some /\ StartsWith(rq.auth.val, Bearer)
          THEN {Strip(DropBearer(rq.auth.val))} ELSE {})

NoCredential(rq) == ~rq.cookie.some /\ ~rq.auth.some

\* the last verification call of the request succeeded, for a string it carries
Validated(rq) ==
    /\ rq.calls # << >>
    /\ rq.calls[Len(rq.calls)].res = "ok"
    /\ rq.calls[Len(rq.calls)].tok \in Carried(rq)

\* the last verification call of the request failed
ValidationFailed(rq) ==
    /\ rq.calls # << >>
    /\ rq.calls[Len(rq.calls)].res # "ok"

PublicPathSet == {PUBLIC_PATHS[i] : i \in 1..Len(PUBLIC_PATHS)}

\* C1 (as claimed): with enforcement on, a request whose path is not an entry
\* of the public-path set and that carries neither a session cookie nor an
\* Authorization header is answered 401 and reaches no route handler.
C1_MissingCredentialRejected ==
    \A r \in Reqs :
        (enforce_iam /\ req[r].path \notin PublicPathSet /\ NoCredential(req[r]))
        => /\ req[r].handler = "none"
           /\ ~req[r].resolved
           /\ req[r].pc = "done" => req[r].resp.status = Unauthorized

\* C2: the GraphQL resolver runs for a request only if enforcement is off or
\* the request's credential was validated successfully by validate_session.
C2_ResolverOnlyIfAdmitted ==
    \A r \in Reqs :
        (req[r].pc = "resolving" \/ req[r].resolved)
        => (~enforce_iam \/ Validated(req[r]))

\* C2 witness: under enforcement the resolver ran for a validated request.
C2_Witness ==
    \E r \in Reqs : enforce_iam /\ req[r].resolved /\ Validated(req[r])

\* C3 (as claimed): with enforcement off every request, whatever its path, is
\* admitted without a verification call and ends with the synthetic identity
\* (anonymous / none / authenticated) attached.
C3_DisabledSyntheticIdentity ==
    \A r \in Reqs :
        (~enforce_iam /\ req[r].pc \in {"resolving", "done"})
        => /\ req[r].calls = << >>
           /\ req[r].resp.status # Unauthorized
           /\ req[r].state.session = dummy_session
           /\ req[r].state.user_id = Some(DummyUser)
           /\ req[r].state.authenticated

\* C4: when a request carries a non-empty session cookie and an Authorization
\* header, every verification call made for it is made with the cookie value.
C4_CookiePrecedence ==
    \A r \in Reqs :
        (Truthy(req[r].cookie) /\ req[r].auth.some)
        => \A i \in DOMAIN req[r].calls : req[r].calls[i].tok = req[r].cookie.val

\* C4 witness: a request with a cookie and a different, usable header token
\* was validated.
C4_Witness ==
    \E r \in Reqs :
        /\ req[r].cookie = Some(TokenC)
        /\ req[r].auth = Some(Bearer \o TokenH)
        /\ req[r].calls # << >>
        /\ req[r].pc = "done"

\* the identity the provider resolves for a token
IdentityOf(tok) == Session(UserOf(tok), SessionOf(tok))

\* the request passed the gate with the identity of tok attached
AdmittedAs(rq, tok) ==
    /\ rq.state.session = IdentityOf(tok)
    /\ rq.state.user_id = Some(UserOf(tok))
    /\ rq.state.authenticated
    /\ rq.resp.status # Unauthorized
    /\ ~rq.uncaught

\* C5 (as claimed): a credential whose local verification fails, by returning
\* no result or by raising, and whose remote verification succeeds is admitted
\* with the remotely resolved identity.
C5_FallbackOnAnyLocalFailure ==
    \A r \in Reqs :
        (/\ req[r].calls # << >>
         /\ req[r].calls[1].tok \in KnownTokens
         /\ idp[req[r].calls[1].tok].local \in {"none", "raise"}
         /\ idp[req[r].calls[1].tok].remote = "ok")
        => AdmittedAs(req[r], req[r].calls[1].tok)

\* C5 (amended): a credential whose local verification returns no result and
\* whose remote verification succeeds is admitted with the remotely resolved
\* identity; when local verification raises, the remote call is not made and
\* the request is rejected with 401.
C5_FallbackOnNoLocalResult ==
    \A r \in Reqs :
        (/\ req[r].calls # << >>
         /\ req[r].calls[1].tok \in KnownTokens
         /\ idp[req[r].calls[1].tok].remote = "ok")
        => LET tok == req[r].calls[1].tok
           IN  /\ idp[tok].local = "none"
                  => /\ AdmittedAs(req[r], tok)
                     /\ req[r].calls = <<Call("local", tok, "none"),
                                         Call("remote", tok, "ok")>>
               /\ idp[tok].local = "raise"
                  => /\ req[r].calls = <<Call("local", tok, "raise")>>
                     /\ req[r].pc = "done"
                     /\ req[r].resp.status = Unauthorized
                     /\ ~req[r].state.session.set

\* C5 witness: the fallback was taken and the request went on to the resolver.
C5_Witness ==
    \E r \in Reqs :
        /\ Len(req[r].calls) = 2
        /\ req[r].calls[2] = Call("remote", TokenH, "ok")
        /\ req[r].state.session = IdentityOf(TokenH)
        /\ req[r].resolved

\* C6: a request whose credential fails validation (the remote call raises
\* after no local result, or the local call raises) is answered 401 with the
\* failure detail, its handler does not run and no exception is left uncaught.
C6_InvalidCredentialRejected ==
    \A r \in Reqs :
        ValidationFailed(req[r])
        => LET last == req[r].calls[Len(req[r].calls)]
           IN  /\ req[r].pc = "done"
               /\ req[r].resp.status = Unauthorized
               /\ req[r].resp.msg =
                    MsgInvalid \o MsgInvalid
                    \o (IF last.fn = "local" THEN MsgLocalError ELSE MsgRemoteError)
               /\ req[r].handler = "none"
               /\ ~req[r].resolved
               /\ ~req[r].uncaught
               /\ ~req[r].state.session.set

\* C6 witness: local verification gave no result, the remote call raised, and
\* the request was answered.
C6_Witness ==
    \E r \in Reqs :
        /\ Len(req[r].calls) = 2
        /\ req[r].calls[2].res = "raise"
        /\ req[r].pc = "done"
        /\ req[r].resp.status = Unauthorized

\* C7 (as claimed): with enforcement on, a request under /gql without cookie
\* and Authorization header is answered 401 with the body
\* {"error": "Authentication required for GraphQL endpoint"}, as a response.
C7_GqlMissingCredentialMessage ==
    \A r \in Reqs :
        (/\ enforce_iam
         /\ StartsWith(req[r].path, PathGql)
         /\ NoCredential(req[r])
         /\ req[r].pc = "done")
        => /\ req[r].resp = Resp(Unauthorized, "error", MsgAuthRequiredGql)
           /\ ~req[r].uncaught

\* C8: for a request, local verification is called at most once and remote
\* verification at most once, the remote call only right after a local call
\* for the same token that returned no result, and nothing is called after a
\* failure.
C8_VerificationOrder ==
    \A r \in Reqs :
        LET calls == req[r].calls
        IN  /\ Len(calls) <= 2
            /\ Len(calls) >= 1 => calls[1].fn = "local"
            /\ Len(calls) = 2 => /\ calls[2].fn = "remote"
                                 /\ calls[1].res = "none"
                                 /\ calls[2].tok = calls[1].tok
            /\ \A i \in DOMAIN calls : calls[i].res = "raise" => i = Len(calls)

\* C8 witness: a request finished after a local call with no result and a
\* remote call.
C8_Witness ==
    \E r \in Reqs :
        /\ req[r].pc = "done"
        /\ Len(req[r].calls) = 2
        /\ req[r].calls[1].fn = "local"
        /\ req[r].calls[2].fn = "remote"

\* the credential the specification derives from an Authorization header
HeaderCredential(h) == Strip(IF StartsWith(h, Bearer) THEN DropBearer(h) ELSE h)

\* the gate has examined the request's credential: the middleware for a path
\* that is not public, require_auth for a request routed to /gql
Examined(rq) ==
    \/ rq.pc # "received" /\ ~IsPublic(rq.path)
    \/ rq.pc \in {"resolving", "done"} /\ Route(rq.path) = "graphql"

\* C9 (as claimed): with enforcement on and no session cookie, the credential
\* the gate considers is the Authorization header without a leading "Bearer ",
\* or else the raw header, trimmed; empty means MissingCredential, otherwise
\* that string is what is validated -- by the middleware as by require_auth.
C9_HeaderCredential ==
    \A r \in Reqs :
        (enforce_iam /\ ~req[r].cookie.some /\ req[r].auth.some /\ Examined(req[r]))
        => IF HeaderCredential(req[r].auth.val) = << >>
           THEN /\ req[r].calls = << >>
                /\ req[r].pc = "done"
                /\ req[r].resp.status = Unauthorized
                /\ req[r].resp.msg[1] = MsgAuthRequired[1]
           ELSE /\ req[r].calls # << >>
                /\ \A i \in DOMAIN req[r].calls :
                       req[r].calls[i].tok = HeaderCredential(req[r].auth.val)

\* C10, the state part: the identity context on a request is the synthetic one
\* when enforcement is off, and otherwise the identity validated for a
\* credential this same request carries.
C10_OwnIdentity ==
    \A r \in Reqs :
        req[r].state.session.set
        => /\ req[r].state.user_id = Some(req[r].state.session.user_id)
           /\ IF ~enforce_iam
              THEN req[r].state.session = dummy_session
              ELSE /\ Validated(req[r])
                   /\ req[r].state.session =
                        IdentityOf(req[r].calls[Len(req[r].calls)].tok)

\* C10, the step part: a step of one request changes no other request and
\* writes no process-wide state.
C10_StepIsolated ==
    /\ enforce_iam' = enforce_iam
    /\ idp' = idp
    /\ \A r, q \in Reqs : (r # q /\ req'[r] # req[r]) => req'[q] = req[q]

\* C10: under every interleaving of concurrently handled requests each request
\* keeps its own identity context and no step touches another request or
\* process-wide state.
C10_RequestIsolation == [](C10_OwnIdentity) /\ [][C10_StepIsolated]_vars

\* C10 witness: two requests in flight at once, each holding its own,
\* different identity.
C10_Witness ==
    \E r, q \in Reqs :
        /\ r # q
        /\ enforce_iam
        /\ req[r].pc = "resolving" /\ req[q].pc = "resolving"
        /\ req[r].state.session = IdentityOf(TokenC)
        /\ req[q].state.session = IdentityOf(TokenH)

===========================================================================
